---- MODULE Spec2Model ----
(***************************************************************************)
(* Model of project3/node/count.py: the bigram ranker.  The script opens   *)
(* the file "result", loads its records into the dict `data`, sorts the    *)
(* items by count, and prints the total, the most common bigram(s) and the *)
(* bigrams needed to add up to 10% of the total.                           *)
(*                                                                         *)
(* A string is a sequence of one-character strings, so that split(), the   *)
(* key concatenation and int() are computed character by character.        *)
(***************************************************************************)
EXTENDS Integers, Sequences, FiniteSets, TLC

\* ------------------------------------------------------------------ bounds
\* Lines of an exhaustively enumerated input file.
MaxLines == 3
\* Lines of an input file of the many-bigram family (one bigram per line).
MaxWide == 10
\* Largest dict whose every iteration order is enumerated.
MaxPermKeys == 4

\* ------------------------------------------------------- string primitives
Whitespace == {" ", "\t", "\n"}

Digits == {"0", "1", "2", "3", "4", "5", "6", "7", "8", "9"}

DigitVal(c) ==
    CASE c = "0" -> 0 [] c = "1" -> 1 [] c = "2" -> 2 [] c = "3" -> 3
      [] c = "4" -> 4 [] c = "5" -> 5 [] c = "6" -> 6 [] c = "7" -> 7
      [] c = "8" -> 8 [] c = "9" -> 9

Front(s) == SubSeq(s, 1, Len(s) - 1)

Last(s) == s[Len(s)]

\* line.split(): the maximal runs of non-whitespace characters of s, in order.
RECURSIVE SplitRec(_, _, _)
SplitRec(s, cur, acc) ==
    IF s = <<>>
    THEN IF cur = <<>> THEN acc ELSE Append(acc, cur)
    ELSE IF Head(s) \in Whitespace
         THEN SplitRec(Tail(s), <<>>, IF cur = <<>> THEN acc ELSE Append(acc, cur))
         ELSE SplitRec(Tail(s), Append(cur, Head(s)), acc)

split(s) == SplitRec(s, <<>>, <<>>)

\* The part of an int() literal after its optional sign.
Unsigned(t) == IF t # <<>> /\ Head(t) \in {"-", "+"} THEN Tail(t) ELSE t

\* int(t) succeeds: an optional sign followed by one or more decimal digits.
IsIntLiteral(t) ==
    /\ Unsigned(t) # <<>>
    /\ \A k \in 1..Len(Unsigned(t)) : Unsigned(t)[k] \in Digits

RECURSIVE DigitsValue(_)
DigitsValue(s) ==
    IF s = <<>> THEN 0 ELSE 10 * DigitsValue(Front(s)) + DigitVal(Last(s))

\* int(t) for a literal t.
int(t) ==
    IF Head(t) = "-" THEN 0 - DigitsValue(Unsigned(t)) ELSE DigitsValue(Unsigned(t))

\* line[0] + " " + line[1]
BigramKey(line) == line[1] \o <<" ">> \o line[2]

\* The line raises: line[2] does not exist (IndexError) or int() rejects it
\* (ValueError).
Malformed(line) == IF Len(line) < 3 THEN TRUE ELSE ~IsIntLiteral(line[3])

LineError(line) == IF Len(line) < 3 THEN "IndexError" ELSE "ValueError"

\* ------------------------------------------------------------ input files
\* The text of a line: its tokens separated by single spaces, then a newline.
RECURSIVE JoinTokens(_)
JoinTokens(toks) ==
    IF toks = <<>> THEN <<>>
    ELSE IF Len(toks) = 1 THEN toks[1]
    ELSE toks[1] \o <<" ">> \o JoinTokens(Tail(toks))

TextLine(toks) == JoinTokens(toks) \o <<"\n">>

SmallCounts == {<<"0">>, <<"1">>, <<"2">>}

SmallLines ==
    {TextLine(<<w, <<"a">>, c>>) : w \in {<<"a">>, <<"b">>}, c \in SmallCounts}
    \cup { TextLine(<<<<"a">>, <<"b">>, <<"-", "1">>>>),
           <<"b", "\t", "b", " ", " ", "1", "0", " ", "z", "\n">>,
           TextLine(<<<<"a">>, <<"a">>, <<"2", "x">>>>),
           TextLine(<<<<"a">>, <<"a">>>>),
           <<"\n">> }

RECURSIVE FilesUpTo(_)
FilesUpTo(n) ==
    IF n = 0 THEN {<<>>}
    ELSE LET shorter == FilesUpTo(n - 1)
         IN  shorter \cup {Append(g, l) : g \in {h \in shorter : Len(h) = n - 1},
                                          l \in SmallLines}

SmallFiles == FilesUpTo(MaxLines)

WideWords == <<<<"a">>, <<"b">>, <<"c">>, <<"d">>>>

\* The j-th bigram of the many-bigram family: 16 distinct bigrams.
WideBigram(j) ==
    <<WideWords[(((j - 1) \div 4) % 4) + 1], WideWords[((j - 1) % 4) + 1]>>

WideCounts == {<<"1">>, <<"2">>}

\* The file whose j-th line holds the j-th bigram with count token c[j].
WideFile(c) == [j \in 1..Len(c) |-> TextLine(Append(WideBigram(j), c[j]))]

WideFiles ==
    UNION {{WideFile(c) : c \in [1..n -> WideCounts]} : n \in (MaxLines + 1)..MaxWide}

InputFiles == SmallFiles \cup WideFiles

\* ------------------------------------------------------------------ state
VARIABLES
    fileExists,   \* whether open("result") succeeds
    f,            \* the lines of the file "result"
    pc,           \* the statement the script is at
    err,          \* the exception that ended the run, or "none"
    i,            \* the loop variable (for line in f: the next line's index)
    data,         \* the aggregate table
    items,        \* data.items(), in the dict's iteration order
    sorted_data,  \* the ranked sequence
    num,          \* the total
    max_num,      \* the largest count
    total,        \* ten times the running threshold (num * 0.1, minus counts)
    out           \* the lines printed so far

vars == <<fileExists, f, pc, err, i, data, items, sorted_data, num, max_num,
          total, out>>

EmptyDict == [k \in {} |-> 0]

Init ==
    /\ fileExists \in BOOLEAN
    /\ f \in InputFiles
    /\ pc = "open"
    /\ err = "none"
    /\ i = 1
    /\ data = EmptyDict
    /\ items = <<>>
    /\ sorted_data = <<>>
    /\ num = 0
    /\ max_num = 0
    /\ total = 0
    /\ out = <<>>

\* ------------------------------------------------------------- operations
\* A printed line: the section it belongs to, and the key or the number on it.
TotalLine(n) == [sec |-> "total", key |-> <<>>, n |-> n]

HeaderLine(section) == [sec |-> section, key |-> <<>>, n |-> 0]

KeyLine(section, k) == [sec |-> section, key |-> k, n |-> 0]

\* Store, were duplicate keys summed: data[k] = data.get(k, 0) + v
StoreSum(d, k, v) == (k :> (IF k \in DOMAIN d THEN d[k] + v ELSE v)) @@ d

\* Store, were the first occurrence kept: data.setdefault(k, v)
StoreFirst(d, k, v) == d @@ (k :> v)

\* data[k] = v
Store(d, k, v) == (k :> v) @@ d

\* The sequences that list every member of S once.
Orderings(S) ==
    {s \in [1..Cardinality(S) -> S] : \A a, b \in 1..Cardinality(S) : s[a] = s[b] => a = b}

\* The keys of the well-formed lines g, each once, in order of first occurrence.
RECURSIVE InsertionOrder(_)
InsertionOrder(g) ==
    IF g = <<>> THEN <<>>
    ELSE LET before == InsertionOrder(Front(g))
             k == BigramKey(split(Last(g)))
         IN  IF \E a \in 1..Len(before) : before[a] = k THEN before ELSE Append(before, k)

RECURSIVE Reversed(_)
Reversed(s) == IF s = <<>> THEN <<>> ELSE <<Last(s)>> \o Reversed(Front(s))

\* The orders in which the dict d, filled from the lines g, may list its keys.
\* A dict lists its keys in hash-table order: any order for a small dict; for a
\* larger one the model keeps the insertion order and its reverse.
KeyOrders(d, g) ==
    IF Cardinality(DOMAIN d) <= MaxPermKeys
    THEN Orderings(DOMAIN d)
    ELSE {InsertionOrder(g), Reversed(InsertionOrder(g))}

\* The (key, count) pairs of d for the keys ks, in the order of ks.
RECURSIVE ItemsIn(_, _)
ItemsIn(d, ks) ==
    IF ks = <<>> THEN <<>>
    ELSE Append(ItemsIn(d, Front(ks)), <<Last(ks), d[Last(ks)]>>)

\* The values d.items() may return: the (key, count) pairs in a key order.
DictItems(d, g) == {ItemsIn(d, ks) : ks \in KeyOrders(d, g)}

\* e inserted into the ascending sequence s after every entry whose count is
\* not greater: the stable insertion of sorted(..., key=itemgetter(1)).
InsertByCount(s, e) ==
    LET p == Cardinality({a \in 1..Len(s) : s[a][2] <= e[2]})
    IN  SubSeq(s, 1, p) \o <<e>> \o SubSeq(s, p + 1, Len(s))

\* sorted(its, key=operator.itemgetter(1)): ascending by count, stable.
RECURSIVE sorted(_)
sorted(its) ==
    IF its = <<>> THEN <<>> ELSE InsertByCount(sorted(Front(its)), Last(its))

\* The ranking without reversed(): ascending by count.
RankAscending(its) == sorted(its)

\* e inserted into the descending sequence s after every entry whose count is
\* not smaller.
InsertByCountDescending(s, e) ==
    LET p == Cardinality({a \in 1..Len(s) : s[a][2] >= e[2]})
    IN  SubSeq(s, 1, p) \o <<e>> \o SubSeq(s, p + 1, Len(s))

\* The ranking by sorted(..., reverse=True): descending by count, stable.
RECURSIVE RankStableDescending(_)
RankStableDescending(its) ==
    IF its = <<>> THEN <<>>
    ELSE InsertByCountDescending(RankStableDescending(Front(its)), Last(its))

\* list(reversed(sorted(data.items(), key=operator.itemgetter(1))))
RankOf(its) == Reversed(sorted(its))

\* The maximum, were it read from the other end: sorted_data[-1][1]
MaxOfLast(sd) == sd[Len(sd)][2]

\* max_num = sorted_data[0][1]
MaxOf(sd) == sd[1][2]

\* The break test, were it "if total <= 0: break"
ExhaustedOrSpent(t) == t <= 0

\* if total < 0: break
\* The script keeps the threshold as the double num * 0.1 and subtracts integer
\* counts from it; the model keeps ten times that value as an integer.  For a
\* num that is a multiple of 10 (below 2^53) the product num * 0.1 rounds to
\* num / 10 exactly, and for any other num the threshold stays at least 0.1 away
\* from zero, so the sign test gives the same answer on both.
Exhausted(t) == t < 0

\* f = open("result") succeeds; data = {}
Open ==
    /\ pc = "open"
    /\ fileExists
    /\ pc' = "load"
    /\ i' = 1
    /\ data' = EmptyDict
    /\ UNCHANGED <<fileExists, f, err, items, sorted_data, num, max_num, total, out>>

\* f = open("result") raises IOError
OpenError ==
    /\ pc = "open"
    /\ ~fileExists
    /\ pc' = "error"
    /\ err' = "IOError"
    /\ UNCHANGED <<fileExists, f, i, data, items, sorted_data, num, max_num, total, out>>

\* One pass of "for line in f" on a line that loads.
LoadLine ==
    /\ pc = "load"
    /\ i <= Len(f)
    /\ LET line == split(f[i])
       IN  /\ ~Malformed(line)
           /\ data' = Store(data, BigramKey(line), int(line[3]))
    /\ i' = i + 1
    /\ UNCHANGED <<fileExists, f, pc, err, items, sorted_data, num, max_num, total, out>>

\* The pass on a line that raises, were the line skipped instead
\* (try: ... except: continue).
LoadSkip ==
    /\ pc = "load"
    /\ i <= Len(f)
    /\ Malformed(split(f[i]))
    /\ i' = i + 1
    /\ UNCHANGED <<fileExists, f, pc, err, data, items, sorted_data, num, max_num, total, out>>

\* One pass of "for line in f" on a line that raises.
LoadError ==
    /\ pc = "load"
    /\ i <= Len(f)
    /\ Malformed(split(f[i]))
    /\ pc' = "error"
    /\ err' = LineError(split(f[i]))
    /\ UNCHANGED <<fileExists, f, i, data, items, sorted_data, num, max_num, total, out>>

\* The file is exhausted: sorted_data = ...; num = 0
Rank ==
    /\ pc = "load"
    /\ i > Len(f)
    /\ \E its \in DictItems(data, f) :
          /\ items' = its
          /\ sorted_data' = RankOf(its)
    /\ num' = 0
    /\ i' = 1
    /\ pc' = "sum"
    /\ UNCHANGED <<fileExists, f, err, data, max_num, total, out>>

\* num += sorted_data[i][1]
SumStep ==
    /\ pc = "sum"
    /\ i <= Len(sorted_data)
    /\ num' = num + sorted_data[i][2]
    /\ i' = i + 1
    /\ UNCHANGED <<fileExists, f, pc, err, data, items, sorted_data, max_num, total, out>>

\* print "the total number of bigrams: ", num; print "the most common bigram: "
PrintTotal ==
    /\ pc = "sum"
    /\ i > Len(sorted_data)
    /\ out' = out \o <<TotalLine(num), HeaderLine("common_header")>>
    /\ pc' = "max"
    /\ UNCHANGED <<fileExists, f, err, i, data, items, sorted_data, num, max_num, total>>

\* max_num = sorted_data[0][1]
TakeMax ==
    /\ pc = "max"
    /\ sorted_data # <<>>
    /\ max_num' = MaxOf(sorted_data)
    /\ i' = 1
    /\ pc' = "common"
    /\ UNCHANGED <<fileExists, f, err, data, items, sorted_data, num, total, out>>

\* max_num = sorted_data[0][1] raises IndexError on the empty list
TakeMaxError ==
    /\ pc = "max"
    /\ sorted_data = <<>>
    /\ pc' = "error"
    /\ err' = "IndexError"
    /\ UNCHANGED <<fileExists, f, i, data, items, sorted_data, num, max_num, total, out>>

\* if sorted_data[i][1] == max_num: print sorted_data[i][0]
CommonStep ==
    /\ pc = "common"
    /\ i <= Len(sorted_data)
    /\ out' = IF sorted_data[i][2] = max_num
              THEN Append(out, KeyLine("common", sorted_data[i][1]))
              ELSE out
    /\ i' = i + 1
    /\ UNCHANGED <<fileExists, f, pc, err, data, items, sorted_data, num, max_num, total>>

\* print "the number of bigrams required ..."; total = num * 0.1
PrintTopHeader ==
    /\ pc = "common"
    /\ i > Len(sorted_data)
    /\ out' = Append(out, HeaderLine("top_header"))
    /\ total' = num
    /\ i' = 1
    /\ pc' = "top"
    /\ UNCHANGED <<fileExists, f, err, data, items, sorted_data, num, max_num>>

\* print sorted_data[i][0]; total -= sorted_data[i][1]; if total < 0: break
TopStep ==
    /\ pc = "top"
    /\ i <= Len(sorted_data)
    /\ out' = Append(out, KeyLine("top", sorted_data[i][1]))
    /\ total' = total - 10 * sorted_data[i][2]
    /\ IF Exhausted(total') THEN pc' = "done" /\ i' = i ELSE pc' = pc /\ i' = i + 1
    /\ UNCHANGED <<fileExists, f, err, data, items, sorted_data, num, max_num>>

\* The loop ends without break.
TopEnd ==
    /\ pc = "top"
    /\ i > Len(sorted_data)
    /\ pc' = "done"
    /\ UNCHANGED <<fileExists, f, err, i, data, items, sorted_data, num, max_num, total, out>>

Next ==
    \/ Open
    \/ OpenError
    \/ LoadLine
    \/ LoadError
    \/ Rank
    \/ SumStep
    \/ PrintTotal
    \/ TakeMax
    \/ TakeMaxError
    \/ CommonStep
    \/ PrintTopHeader
    \/ TopStep
    \/ TopEnd

Spec == Init /\ [][Next]_vars

\* ------------------------------------------------- vocabulary of the claims
\* The (key, count) records of the well-formed lines g, in file order.
RECURSIVE Records(_)
Records(g) ==
    IF g = <<>> THEN <<>>
    ELSE LET line == split(Last(g))
         IN  Append(Records(Front(g)), <<BigramKey(line), int(line[3])>>)

\* The bigram keys of the records r.
KeysOf(r) == {r[j][1] : j \in 1..Len(r)}

Max(S) == CHOOSE x \in S : \A y \in S : y <= x

Min(S) == CHOOSE x \in S : \A y \in S : x <= y

\* The count of the last of the records r whose key is k.
LastCount(r, k) == r[Max({j \in 1..Len(r) : r[j][1] = k})][2]

\* The sum over the keys S of the count of each key's last occurrence in r.
RECURSIVE SumOfLastCounts(_, _)
SumOfLastCounts(S, r) ==
    IF S = {} THEN 0
    ELSE LET k == CHOOSE x \in S : TRUE
         IN  LastCount(r, k) + SumOfLastCounts(S \ {k}, r)

\* The sum of the counts of the table d over its keys S.
RECURSIVE SumOfTable(_, _)
SumOfTable(d, S) ==
    IF S = {} THEN 0
    ELSE LET k == CHOOSE x \in S : TRUE
         IN  d[k] + SumOfTable(d, S \ {k})

\* The keys printed in a section, in print order.
RECURSIVE SectionKeys(_, _)
SectionKeys(lines, section) ==
    IF lines = <<>> THEN <<>>
    ELSE IF Last(lines).sec = section
         THEN Append(SectionKeys(Front(lines), section), Last(lines).key)
         ELSE SectionKeys(Front(lines), section)

\* The sum of the counts of the first k entries of sd.
RECURSIVE PrefixSum(_, _)
PrefixSum(sd, k) == IF k = 0 THEN 0 ELSE PrefixSum(sd, k - 1) + sd[k][2]

\* The keys of the first k entries of sd.
PrefixKeys(sd, k) == [a \in 1..k |-> sd[a][1]]

\* The position of the entry of key k in sd.
PositionOf(sd, k) == CHOOSE a \in 1..Len(sd) : sd[a][1] = k

NoRepeat(s) == \A a, b \in 1..Len(s) : s[a] = s[b] => a = b

Loaded == pc \in {"sum", "max", "common", "top", "done"}

TotalPrinted == \E j \in 1..Len(out) : out[j].sec = "total"

\* ------------------------------------------------------------------ claims
\* C1: for a non-empty input of well-formed records, the total printed by
\* report is the sum, over the unique bigram keys, of the count of each key's
\* last occurrence in the input (duplicates are not summed).
C1_TotalIsSumOfLastCounts ==
    (f # <<>> /\ TotalPrinted) =>
        LET r == Records(f)
            sum == SumOfLastCounts(KeysOf(r), r)
        IN  \A j \in 1..Len(out) : out[j].sec = "total" => out[j].n = sum

\* A total was printed for a file that repeats a key with a different count.
C1_Witness ==
    /\ TotalPrinted
    /\ LET r == Records(f)
       IN  \E a, b \in 1..Len(r) :
              a < b /\ r[a][1] = r[b][1] /\ r[a][2] > 0 /\ r[a][2] # r[b][2]

\* C2: for a non-empty input, the keys printed in the "most common" section
\* are exactly the keys of the aggregate table whose count is the maximum
\* count, each printed once.
C2_MostCommonAreTheMaxima ==
    (f # <<>> /\ pc \in {"top", "done"}) =>
        LET printed == SectionKeys(out, "common")
        IN  /\ NoRepeat(printed)
            /\ {printed[a] : a \in 1..Len(printed)} =
                   {k \in DOMAIN data : \A k2 \in DOMAIN data : data[k2] <= data[k]}

\* Two tied maxima were printed and a key with a smaller count was not.
C2_Witness ==
    /\ pc = "done"
    /\ Len(SectionKeys(out, "common")) = 2
    /\ Cardinality(DOMAIN data) >= 3

\* C3: for a non-empty input (of non-negative counts), the keys printed in the
\* "top-10%" section are a prefix of the ranked sequence, and the sum of the
\* counts of that prefix is the smallest prefix sum that is >= 0.1 * total,
\* also when a prefix sum equals 0.1 * total exactly.
C3_SmallestPrefixReachingTenth ==
    (pc = "done" /\ sorted_data # <<>> /\ \A a \in 1..Len(sorted_data) : sorted_data[a][2] >= 0) =>
        LET printed == SectionKeys(out, "top")
            p == Len(printed)
        IN  /\ p <= Len(sorted_data)
            /\ printed = PrefixKeys(sorted_data, p)
            /\ 10 * PrefixSum(sorted_data, p) >= num
            /\ \A k \in 1..Len(sorted_data) :
                  10 * PrefixSum(sorted_data, k) >= num =>
                      PrefixSum(sorted_data, p) <= PrefixSum(sorted_data, k)

\* C4: on an empty input file the run reports total = 0 and completes: it
\* never ends in an error state.
C4_EmptyInputCompletes ==
    (fileExists /\ f = <<>>) =>
        /\ pc # "error"
        /\ pc = "done" => (TotalPrinted /\ \A j \in 1..Len(out) : out[j].n = 0)

\* C5: while and after loading well-formed records, the aggregate table maps
\* each bigram key of the lines read to the count of that key's last
\* occurrence, and holds no other key.
C5_LoadIsLastWriteWins ==
    (pc = "load" \/ Loaded) =>
        LET r == Records(IF pc = "load" THEN SubSeq(f, 1, i - 1) ELSE f)
        IN  /\ DOMAIN data = KeysOf(r)
            /\ \A k \in KeysOf(r) : data[k] = LastCount(r, k)

\* The load is over for a file that repeats a key with a different count.
C5_Witness ==
    /\ Loaded
    /\ LET r == Records(f)
       IN  \E a, b \in 1..Len(r) : a < b /\ r[a][1] = r[b][1] /\ r[a][2] # r[b][2]

BadInput == ~fileExists \/ \E j \in 1..Len(f) : Malformed(split(f[j]))

\* C6: if the file cannot be opened, or any line of it has fewer than three
\* tokens or a third token that is not an integer, nothing is ever printed,
\* the run never reaches the report, the step that meets the failure ends the
\* run in the error state, and the error state is final.
C6_BadInputPrintsNothing ==
    /\ [](BadInput => (out = <<>> /\ pc \in {"open", "load", "error"}))
    /\ []((BadInput /\ pc = "error") => ~ENABLED Next)
    /\ [][(pc = "open" /\ ~fileExists) => pc' = "error"]_vars
    /\ [][(pc = "load" /\ i <= Len(f) /\ Malformed(split(f[i]))) =>
             (pc' = "error" /\ out' = <<>>)]_vars

\* The run ended in error on the last line of a file, after two good lines.
C6_Witness ==
    /\ pc = "error"
    /\ err \in {"IndexError", "ValueError"}
    /\ i = Len(f)
    /\ i >= 3
    /\ Cardinality(DOMAIN data) >= 1
    /\ out = <<>>

\* C7: the ranked sequence is a permutation of the aggregate table's entries
\* (each key once, with its table count) and its counts never increase.
C7_RankedIsSortedPermutation ==
    Loaded =>
        /\ Len(sorted_data) = Cardinality(DOMAIN data)
        /\ \A k \in DOMAIN data :
              \E a \in 1..Len(sorted_data) : sorted_data[a] = <<k, data[k]>>
        /\ PrefixSum(sorted_data, Len(sorted_data)) = SumOfTable(data, DOMAIN data)
        /\ \A a, b \in 1..Len(sorted_data) :
              a < b => sorted_data[a][2] >= sorted_data[b][2]

\* Three or more entries of differing counts were ranked, and rank moved them.
C7_Witness ==
    /\ pc = "sum"
    /\ Len(sorted_data) >= 3
    /\ sorted_data[1][2] > sorted_data[Len(sorted_data)][2]
    /\ sorted_data # items

\* C9: the top-10% loop prints the ranked keys in order while the running
\* threshold, 0.1 * total minus the counts printed, is not negative; it ends
\* with the first entry that makes it strictly negative, or with the last
\* entry when none does; it prints at least one key.
C9_TopLoopStopsWhenNegative ==
    /\ pc = "top" =>
          /\ SectionKeys(out, "top") = PrefixKeys(sorted_data, i - 1)
          /\ total = num - 10 * PrefixSum(sorted_data, i - 1)
          /\ \A k \in 1..(i - 1) : num - 10 * PrefixSum(sorted_data, k) >= 0
    /\ (pc = "done" /\ sorted_data # <<>>) =>
          LET n == Len(sorted_data)
              neg == {k \in 1..n : num - 10 * PrefixSum(sorted_data, k) < 0}
              stop == IF neg = {} THEN n ELSE Min(neg)
          IN  /\ stop >= 1
              /\ SectionKeys(out, "top") = PrefixKeys(sorted_data, stop)

\* The loop printed two keys and stopped with entries left.
C9_Witness ==
    /\ pc = "done"
    /\ Len(SectionKeys(out, "top")) = 2
    /\ Len(sorted_data) > 2

\* C10 as stated: of two entries with equal counts, the one that comes earlier
\* in the table's iteration order comes earlier in the ranked sequence.
C10_TiesKeepIterationOrder ==
    Loaded =>
        \A a, b \in 1..Len(items) :
            (a < b /\ items[a][2] = items[b][2]) =>
                PositionOf(sorted_data, items[a][1]) < PositionOf(sorted_data, items[b][1])

\* C10 amended: of two entries with equal counts, the one that comes earlier
\* in the table's iteration order comes later in the ranked sequence.
C10_TiesReverseIterationOrder ==
    Loaded =>
        \A a, b \in 1..Len(items) :
            (a < b /\ items[a][2] = items[b][2]) =>
                PositionOf(sorted_data, items[a][1]) > PositionOf(sorted_data, items[b][1])

\* A table with two entries of equal count was ranked.
C10_Witness ==
    /\ Loaded
    /\ \E a, b \in 1..Len(items) : a < b /\ items[a][2] = items[b][2]

====
